---- MODULE Spec2Model ----
(***************************************************************************)
(* Library management service: the business logic of                       *)
(* services/library_service.py over its persistence collaborator and its   *)
(* payment gateway.                                                        *)
(*                                                                         *)
(* Strings are sequences of one-character strings, dates are day numbers   *)
(* (the code only ever compares .date() parts), money is in cents (every   *)
(* amount the code computes is a multiple of 0.50).                        *)
(***************************************************************************)
EXTENDS Integers, Sequences, FiniteSets, TLC

VARIABLES
    books,            \* table books: the row with id i is books[i]
    borrow_records,   \* table borrow_records, in insertion order
    now,              \* today's day number (datetime.now().date())
    call,             \* the last service call: operation and arguments
    result,           \* what the last service call returned
    db_calls,         \* persistence functions the last call invoked, in order
    gateway_calls     \* payment gateway methods the last call invoked, in order

vars == <<books, borrow_records, now, call, result, db_calls, gateway_calls>>

----------------------------------------------------------------------------
(* Bounds of the model *)

MaxRecords == 1        \* borrow records the general specification creates
MaxDay == 1            \* last day the general specification's clock reaches
MaxLimitRecords == 7   \* borrow records the borrowing-limit specification creates
LimitCopies == 7       \* copies of the book of the borrowing-limit specification
MaxFeeDay == 44        \* last day of the fee specification
MaxFeeBorrowDay == 0   \* latest borrow date of a loan the fee specification starts with
MaxFeeLoans == 1       \* borrow records of the fee and patron-id specifications
MaxReportLoans == 2    \* borrow records of the report specification
MaxReportWeeks == 3    \* weeks after the first due date the report specification reaches
MaxHistoryRecords == 2 \* borrow records the history specification creates
MaxHistoryDay == 1     \* last day the history specification's clock reaches

----------------------------------------------------------------------------
(* Program constants *)

LoanDays == 14
BorrowLimit == 5
FirstTierDays == 7
FirstTierRate == 50
SecondTierRate == 100
FeeCap == 1500
ReportFirstTierDays == 7
ReportFirstTierRate == 50
ReportSecondTierRate == 100
ReportFeeCap == 1500
PatronIdLen == 6
IsbnLen == 13
MaxTitleLen == 200
MaxAuthorLen == 100
RefundMax == 1500

----------------------------------------------------------------------------
(* Strings *)

Digits == {"0", "1", "2", "3", "4", "5", "6", "7", "8", "9"}

Min(a, b) == IF a < b THEN a ELSE b

Max(a, b) == IF a > b THEN a ELSE b

Rep(c, n) == [i \in 1..n |-> c]

\* str.isdigit(): non-empty and every character a digit
isdigit(s) == Len(s) > 0 /\ \A i \in 1..Len(s) : s[i] \in Digits

\* the whitespace characters of the inputs
Whitespace == {" ", "\t", "\n"}

RECURSIVE lstrip(_)
lstrip(s) == IF s # <<>> /\ Head(s) \in Whitespace THEN lstrip(Tail(s)) ELSE s

RECURSIVE rstrip(_)
rstrip(s) ==
    IF s # <<>> /\ s[Len(s)] \in Whitespace THEN rstrip(SubSeq(s, 1, Len(s) - 1)) ELSE s

\* str.strip()
strip(s) == rstrip(lstrip(s))

\* s.startswith(prefix)
startswith(s, prefix) == Len(s) >= Len(prefix) /\ SubSeq(s, 1, Len(prefix)) = prefix

UpperCase == <<"A", "B", "C", "D", "E", "F", "G", "H", "I", "J", "K", "L", "M",
               "N", "O", "P", "Q", "R", "S", "T", "U", "V", "W", "X", "Y", "Z">>

LowerCase == <<"a", "b", "c", "d", "e", "f", "g", "h", "i", "j", "k", "l", "m",
               "n", "o", "p", "q", "r", "s", "t", "u", "v", "w", "x", "y", "z">>

\* str.lower()
lower(s) ==
    [i \in 1..Len(s) |->
        IF \E k \in DOMAIN UpperCase : UpperCase[k] = s[i]
        THEN LowerCase[CHOOSE k \in DOMAIN UpperCase : UpperCase[k] = s[i]]
        ELSE s[i]]

\* sub in s
contains(s, sub) ==
    \E i \in 0..(Len(s) - Len(sub)) : SubSeq(s, i + 1, i + Len(sub)) = sub

\* the characters of the inputs in code-point order
CodePoints == <<"\t", "\n", " ">>
              \o <<"0", "1", "2", "3", "4", "5", "6", "7", "8", "9">>
              \o UpperCase \o <<"_">> \o LowerCase

ord(c) == CHOOSE k \in DOMAIN CodePoints : CodePoints[k] = c

\* a < b on strings
RECURSIVE str_lt(_, _)
str_lt(a, b) ==
    IF b = <<>> THEN FALSE
    ELSE IF a = <<>> THEN TRUE
    ELSE IF Head(a) = Head(b) THEN str_lt(Tail(a), Tail(b))
    ELSE ord(Head(a)) < ord(Head(b))

\* a float: an amount in cents, or not-a-number
Float(cents) == [nan |-> FALSE, cents |-> cents]

NaN == [nan |-> TRUE, cents |-> 0]

\* a <= b and a > b on floats: every comparison with not-a-number is false
FloatLe(a, b) == ~a.nan /\ ~b.nan /\ a.cents <= b.cents

FloatGt(a, b) == ~a.nan /\ ~b.nan /\ a.cents > b.cents

----------------------------------------------------------------------------
(* Result values and messages *)

MsgInvalidPatron == "Invalid patron ID. Must be exactly 6 digits."
MsgBookNotFound == "Book not found."
MsgNotAvailable == "This book is currently not available."
MsgLimit == "You have reached the maximum borrowing limit of 5 books."
MsgInsertFailed == "Database error occurred while creating borrow record."
MsgAvailFailed == "Database error occurred while updating book availability."
MsgBorrowed == "Successfully borrowed. Due date."
MsgNoActive == "No active borrow record for this patron and book."
MsgReturnFailed == "Database error occurred while updating return record."
MsgReturnPartial == "Return recorded but failed to update book availability."
MsgReturnedLate == "Book returned successfully. Late fee for day(s) overdue."
MsgReturnedNoFee == "Book returned successfully. No late fee."
MsgTitleRequired == "Title is required."
MsgTitleLong == "Title must be less than 200 characters."
MsgAuthorRequired == "Author is required."
MsgAuthorLong == "Author must be less than 100 characters."
MsgIsbnLength == "ISBN must be exactly 13 digits."
MsgCopies == "Total copies must be a positive integer."
MsgIsbnExists == "A book with this ISBN already exists."
MsgAdded == "Book has been successfully added to the catalog."
MsgAddFailed == "Database error occurred while adding the book."
MsgNoFees == "No late fees to pay for this book."
MsgPaid == "Payment successful! "
MsgDeclined == "Payment failed: "
MsgPayError == "Payment processing error: "
MsgInvalidTxn == "Invalid transaction ID."
MsgRefundLow == "Refund amount must be greater than 0."
MsgRefundHigh == "Refund amount exceeds maximum late fee."
MsgRefundFailed == "Refund failed: "
MsgRefundError == "Refund processing error: "
MsgRaised == "raised"
StInvalidPatron == "Invalid patron ID"
StBookNotFound == "Book not found"
StNoActive == "No active borrow for this patron and book"
StNotOverdue == "Not overdue"
StOverdue == "Overdue"

\* A returned value.  message holds the message, or the 'status' / 'error' of
\* a returned dict; detail the text a message ends with when it quotes the
\* payment gateway; fee_amount and days_overdue the fee figures it carries;
\* report the patron status payload; rows the list of books a search returns;
\* transaction_id the Optional[str]: <<>> for None, else <<the string>>.
Res(success, message, fee_amount, days_overdue) ==
    [success |-> success, message |-> message, detail |-> "", fee_amount |-> fee_amount,
     days_overdue |-> days_overdue, report |-> <<>>, rows |-> <<>>,
     transaction_id |-> <<>>]

\* a result that quotes the payment gateway
Quoting(success, message, detail, transaction_id) ==
    [Res(success, message, 0, 0) EXCEPT !.detail = detail,
                                        !.transaction_id = transaction_id]

\* no value is returned: the exception leaves the call
Raised(e) == Quoting(FALSE, MsgRaised, e, <<>>)

NoCall == [op |-> "none", patron_id |-> <<>>, book_id |-> 0, args |-> <<>>]

Call(op, patron_id, book_id) ==
    [op |-> op, patron_id |-> patron_id, book_id |-> book_id, args |-> <<>>]

----------------------------------------------------------------------------
(* Persistence collaborator (module database) *)

\* get_book_by_id(book_id) is not None
BookExists(book_id) == book_id \in 1..Len(books)

get_book_by_id(book_id) == books[book_id]

\* get_book_by_isbn(isbn) is not None
IsbnExists(isbn) == \E i \in 1..Len(books) : books[i].isbn = isbn

\* the rows of the books table ordered by title (rows of one title in id order)
get_all_books ==
    LET before(j, i) == \/ str_lt(books[j].title, books[i].title)
                        \/ books[j].title = books[i].title /\ j < i
        rank(i) == 1 + Cardinality({ j \in 1..Len(books) : before(j, i) })
    IN  [k \in 1..Len(books) |->
            LET i == CHOOSE n \in 1..Len(books) : rank(n) = k
            IN  [id |-> i, title |-> books[i].title, author |-> books[i].author,
                 isbn |-> books[i].isbn, total_copies |-> books[i].total_copies,
                 available_copies |-> books[i].available_copies]]

insert_book(title, author, isbn, total_copies, available_copies) ==
    Append(books, [title |-> title, author |-> author, isbn |-> isbn,
                   total_copies |-> total_copies,
                   available_copies |-> available_copies])

update_book_availability(book_id, change) ==
    [books EXCEPT ![book_id].available_copies = @ + change]

insert_borrow_record(patron_id, book_id, borrow_date, due_date) ==
    Append(borrow_records, [patron_id |-> patron_id, book_id |-> book_id,
                            borrow_date |-> borrow_date, due_date |-> due_date,
                            return_date |-> <<>>])

IsActive(r) == r.return_date = <<>>

\* sets return_date on the active record(s) of the pair
update_borrow_record_return_date(patron_id, book_id, return_date) ==
    [i \in 1..Len(borrow_records) |->
        IF /\ borrow_records[i].patron_id = patron_id
           /\ borrow_records[i].book_id = book_id
           /\ IsActive(borrow_records[i])
        THEN [borrow_records[i] EXCEPT !.return_date = <<return_date>>]
        ELSE borrow_records[i]]

\* the active records of the patron, oldest first
get_patron_borrowed_books(patron_id) ==
    SelectSeq(borrow_records, LAMBDA r : r.patron_id = patron_id /\ IsActive(r))

get_patron_borrow_count(patron_id) == Len(get_patron_borrowed_books(patron_id))

----------------------------------------------------------------------------
(* Shared checks of the service *)

\* the digit check forgotten
ValidPatronId_lengthOnly(patron_id) == Len(patron_id) = PatronIdLen

\* not (not patron_id or not patron_id.isdigit() or len(patron_id) != 6)
ValidPatronId(patron_id) ==
    ~(patron_id = <<>> \/ ~isdigit(patron_id) \/ Len(patron_id) # PatronIdLen)

\* the availability check off by one
NotAvailable_negative(book) == book.available_copies < 0

\* book['available_copies'] <= 0
NotAvailable(book) == book.available_copies <= 0

\* the limit check made to reject at 5 active borrows
LimitReached_at5(current_borrowed) == current_borrowed >= BorrowLimit

\* the limit check made to reject only above 6 active borrows
LimitReached_above6(current_borrowed) == current_borrowed > BorrowLimit + 1

\* current_borrowed > 5
LimitReached(current_borrowed) == current_borrowed > BorrowLimit

\* the patron of the record not compared
ActiveBorrows_anyPatron(patron_id, book_id) ==
    SelectSeq(borrow_records, LAMBDA r : r.book_id = book_id /\ IsActive(r))

\* next((r for r in active_borrows if r['book_id'] == book_id), None), as a
\* sequence: empty for None, else its head is the record found
ActiveBorrows(patron_id, book_id) ==
    SelectSeq(get_patron_borrowed_books(patron_id), LAMBDA r : r.book_id = book_id)

----------------------------------------------------------------------------
(* Fee calculator *)

\* the days counted from the borrow date instead of the due date
DaysOverdue_sinceBorrow(record) == now - record.borrow_date

\* (now - due).days
DaysOverdue(record) == now - record.due_date

\* the second tier forgotten
LateFee_flat(days_overdue) == Min(days_overdue * FirstTierRate, FeeCap)

\* first7 + rest, capped
LateFee(days_overdue) ==
    LET first7 == Min(days_overdue, FirstTierDays) * FirstTierRate
        rest == Max(days_overdue - FirstTierDays, 0) * SecondTierRate
    IN  Min(first7 + rest, FeeCap)

FeeInfo(fee_amount, days_overdue, status) ==
    [fee_amount |-> fee_amount, days_overdue |-> days_overdue, status |-> status]

\* the dict calculate_late_fee_for_book returns in the current state
calculate_late_fee_for_book(patron_id, book_id) ==
    IF ~ValidPatronId(patron_id) THEN FeeInfo(0, 0, StInvalidPatron)
    ELSE IF ~BookExists(book_id) THEN FeeInfo(0, 0, StBookNotFound)
    ELSE IF ActiveBorrows(patron_id, book_id) = <<>> THEN FeeInfo(0, 0, StNoActive)
    ELSE LET record == Head(ActiveBorrows(patron_id, book_id))
             days_overdue == DaysOverdue(record)
         IN  IF days_overdue <= 0 THEN FeeInfo(0, 0, StNotOverdue)
             ELSE FeeInfo(LateFee(days_overdue), days_overdue, StOverdue)

\* the persistence functions calculate_late_fee_for_book invokes
FeeDbCalls(patron_id, book_id) ==
    IF ~ValidPatronId(patron_id) THEN <<>>
    ELSE IF ~BookExists(book_id) THEN <<"get_book_by_id">>
    ELSE <<"get_book_by_id", "get_patron_borrowed_books">>

----------------------------------------------------------------------------
(* Borrowing engine *)

Answer(c, r, db, gw) ==
    /\ call' = c
    /\ result' = r
    /\ db_calls' = db
    /\ gateway_calls' = gw

\* the result of insert_borrow_record not looked at
InsertFailed_ignored(borrow_success) == FALSE

\* not borrow_success
InsertFailed(borrow_success) == ~borrow_success

\* the result of update_book_availability not looked at
AvailabilityFailed_ignored(availability_success) == FALSE

\* not availability_success
AvailabilityFailed(availability_success) == ~availability_success

\* the loan period taken for a week
DueDate_oneWeek(borrow_date) == borrow_date + FirstTierDays

\* due_date = borrow_date + timedelta(days=14)
DueDate(borrow_date) == borrow_date + LoanDays

\* insert_ok, availability_ok: whether the persistence writes succeed
borrow_book_by_patron(patron_id, book_id, insert_ok, availability_ok) ==
    LET c == Call("borrow_book_by_patron", patron_id, book_id)
        \* the store after each write: a write that fails changes nothing
        Inserted == IF insert_ok
                    THEN insert_borrow_record(patron_id, book_id, now, DueDate(now))
                    ELSE borrow_records
        Decremented == IF availability_ok THEN update_book_availability(book_id, -1)
                       ELSE books
    IN
    /\ UNCHANGED now
    /\ IF ~ValidPatronId(patron_id) THEN
            /\ Answer(c, Res(FALSE, MsgInvalidPatron, 0, 0), <<>>, <<>>)
            /\ UNCHANGED <<books, borrow_records>>
       ELSE IF ~BookExists(book_id) THEN
            /\ Answer(c, Res(FALSE, MsgBookNotFound, 0, 0), <<"get_book_by_id">>, <<>>)
            /\ UNCHANGED <<books, borrow_records>>
       ELSE IF NotAvailable(get_book_by_id(book_id)) THEN
            /\ Answer(c, Res(FALSE, MsgNotAvailable, 0, 0), <<"get_book_by_id">>, <<>>)
            /\ UNCHANGED <<books, borrow_records>>
       ELSE IF LimitReached(get_patron_borrow_count(patron_id)) THEN
            /\ Answer(c, Res(FALSE, MsgLimit, 0, 0),
                      <<"get_book_by_id", "get_patron_borrow_count">>, <<>>)
            /\ UNCHANGED <<books, borrow_records>>
       ELSE IF InsertFailed(insert_ok) THEN
            /\ Answer(c, Res(FALSE, MsgInsertFailed, 0, 0),
                      <<"get_book_by_id", "get_patron_borrow_count",
                        "insert_borrow_record">>, <<>>)
            /\ UNCHANGED <<books, borrow_records>>
       ELSE IF AvailabilityFailed(availability_ok) THEN
            /\ Answer(c, Res(FALSE, MsgAvailFailed, 0, 0),
                      <<"get_book_by_id", "get_patron_borrow_count",
                        "insert_borrow_record", "update_book_availability">>, <<>>)
            /\ borrow_records' = Inserted
            /\ UNCHANGED books
       ELSE
            /\ Answer(c, Res(TRUE, MsgBorrowed, 0, 0),
                      <<"get_book_by_id", "get_patron_borrow_count",
                        "insert_borrow_record", "update_book_availability">>, <<>>)
            /\ borrow_records' = Inserted
            /\ books' = Decremented

\* the increment of a return made unconditional
BelowTotal_always(refreshed) == refreshed.available_copies <= refreshed.total_copies

\* the increment made only when no copy is available
BelowTotal_empty(refreshed) == refreshed.available_copies = 0

\* refreshed['available_copies'] < refreshed['total_copies']
BelowTotal(refreshed) == refreshed.available_copies < refreshed.total_copies

\* the fee computed after the return date is written, when the pair has no
\* active record any more
ReturnFeeInfo_afterWrite(patron_id, book_id) == FeeInfo(0, 0, StNoActive)

\* fee_info, computed before the return date is written
ReturnFeeInfo(patron_id, book_id) == calculate_late_fee_for_book(patron_id, book_id)

\* the result of the increment not looked at
IncrementFailed_ignored(availability_success) == FALSE

\* not update_book_availability(book_id, +1)
IncrementFailed(availability_success) == ~availability_success

\* return_ok, availability_ok: whether the persistence writes succeed
return_book_by_patron(patron_id, book_id, return_ok, availability_ok) ==
    LET c == Call("return_book_by_patron", patron_id, book_id)
        fee_info == ReturnFeeInfo(patron_id, book_id)
        fee == fee_info.fee_amount
        days_overdue == fee_info.days_overdue
        lookup == <<"get_book_by_id", "get_patron_borrowed_books">>
        written == lookup \o FeeDbCalls(patron_id, book_id)
                          \o <<"update_borrow_record_return_date">>
        final == IF days_overdue > 0 /\ fee > 0
                 THEN Res(TRUE, MsgReturnedLate, fee, days_overdue)
                 ELSE Res(TRUE, MsgReturnedNoFee, 0, 0)
    IN
    /\ UNCHANGED now
    /\ IF ~ValidPatronId(patron_id) THEN
            /\ Answer(c, Res(FALSE, MsgInvalidPatron, 0, 0), <<>>, <<>>)
            /\ UNCHANGED <<books, borrow_records>>
       ELSE IF ~BookExists(book_id) THEN
            /\ Answer(c, Res(FALSE, MsgBookNotFound, 0, 0), <<"get_book_by_id">>, <<>>)
            /\ UNCHANGED <<books, borrow_records>>
       ELSE IF ActiveBorrows(patron_id, book_id) = <<>> THEN
            /\ Answer(c, Res(FALSE, MsgNoActive, 0, 0), lookup, <<>>)
            /\ UNCHANGED <<books, borrow_records>>
       ELSE IF ~return_ok THEN
            /\ Answer(c, Res(FALSE, MsgReturnFailed, 0, 0), written, <<>>)
            /\ UNCHANGED <<books, borrow_records>>
       ELSE
            /\ borrow_records' = update_borrow_record_return_date(patron_id, book_id, now)
            /\ LET refreshed == get_book_by_id(book_id) IN
               IF BelowTotal(refreshed) THEN
                    IF IncrementFailed(availability_ok) THEN
                        /\ Answer(c, Res(FALSE, MsgReturnPartial, 0, 0),
                                  written \o <<"get_book_by_id", "update_book_availability">>,
                                  <<>>)
                        /\ UNCHANGED books
                    ELSE
                        /\ Answer(c, final,
                                  written \o <<"get_book_by_id", "update_book_availability">>,
                                  <<>>)
                        /\ books' = IF availability_ok
                                     THEN update_book_availability(book_id, 1)
                                     ELSE books
               ELSE
                    /\ Answer(c, final, written \o <<"get_book_by_id">>, <<>>)
                    /\ UNCHANGED books

----------------------------------------------------------------------------
(* Catalog *)

\* the duplicate check left out
DuplicateIsbn_ignored(isbn) == FALSE

\* existing = get_book_by_isbn(isbn); if existing
DuplicateIsbn(isbn) == IsbnExists(isbn)

\* insert_ok: whether the persistence write succeeds
add_book_to_catalog(title, author, isbn, total_copies, insert_ok) ==
    LET c == [op |-> "add_book_to_catalog", patron_id |-> <<>>, book_id |-> 0,
              args |-> <<title, author, isbn, total_copies>>]
        Fail(message, db) ==
            /\ Answer(c, Res(FALSE, message, 0, 0), db, <<>>)
            /\ UNCHANGED books
    IN
    /\ UNCHANGED <<borrow_records, now>>
    /\ IF title = <<>> \/ strip(title) = <<>> THEN Fail(MsgTitleRequired, <<>>)
       ELSE IF Len(strip(title)) > MaxTitleLen THEN Fail(MsgTitleLong, <<>>)
       ELSE IF author = <<>> \/ strip(author) = <<>> THEN Fail(MsgAuthorRequired, <<>>)
       ELSE IF Len(strip(author)) > MaxAuthorLen THEN Fail(MsgAuthorLong, <<>>)
       ELSE IF Len(isbn) # IsbnLen THEN Fail(MsgIsbnLength, <<>>)
       ELSE IF total_copies <= 0 THEN Fail(MsgCopies, <<>>)
       ELSE IF DuplicateIsbn(isbn) THEN Fail(MsgIsbnExists, <<"get_book_by_isbn">>)
       ELSE IF ~insert_ok THEN Fail(MsgAddFailed, <<"get_book_by_isbn", "insert_book">>)
       ELSE /\ Answer(c, Res(TRUE, MsgAdded, 0, 0),
                      <<"get_book_by_isbn", "insert_book">>, <<>>)
            /\ books' = insert_book(strip(title), strip(author), isbn,
                                    total_copies, total_copies)

TitleType == <<"t", "i", "t", "l", "e">>
AuthorType == <<"a", "u", "t", "h", "o", "r">>
IsbnType == <<"i", "s", "b", "n">>

\* a term of spaces taken for a query
BlankTerm_emptyOnly(search_term) == search_term = <<>> \/ search_term[1] = <<>>

\* not search_term or not str(search_term).strip(), with search_term <<>>
\* for None and else <<the string>>
BlankTerm(search_term) ==
    \/ search_term = <<>>
    \/ search_term[1] = <<>>
    \/ strip(search_term[1]) = <<>>

\* an unknown type taken for an author search
KnownType_author(stype) ==
    IF stype \notin {TitleType, AuthorType, IsbnType} THEN AuthorType ELSE stype

\* if stype not in {'title', 'author', 'isbn'}: stype = 'title'
KnownType(stype) ==
    IF stype \notin {TitleType, AuthorType, IsbnType} THEN TitleType ELSE stype

\* stype, with search_type <<>> for None and else <<the string>>
SearchType(search_type) ==
    KnownType(lower(IF search_type = <<>> \/ search_type[1] = <<>>
                    THEN TitleType ELSE search_type[1]))

\* the ISBN matched as the title and the author are
IsbnMatch_partial(b, q) == contains(b.isbn, q)

\* (b.get('isbn') or '') == q
IsbnMatch(b, q) == b.isbn = q

\* ql in (b.get(key) or '').lower()
FieldMatch(b, key, ql) ==
    contains(lower(IF key = TitleType THEN b.title ELSE b.author), ql)

\* the list search_books_in_catalog returns in the current state
SearchRows(search_term, search_type) ==
    LET all_books == get_all_books IN
    IF BlankTerm(search_term) THEN all_books
    ELSE LET q == strip(search_term[1])
             stype == SearchType(search_type)
             key == IF stype = TitleType THEN TitleType ELSE AuthorType
             ql == lower(q)
         IN  IF stype = IsbnType
             THEN SelectSeq(all_books, LAMBDA b : IsbnMatch(b, q))
             ELSE SelectSeq(all_books, LAMBDA b : FieldMatch(b, key, ql))

search_books_in_catalog(search_term, search_type) ==
    /\ Answer([op |-> "search_books_in_catalog", patron_id |-> <<>>, book_id |-> 0,
                args |-> <<search_term, search_type>>],
              [Res(TRUE, "", 0, 0) EXCEPT !.rows = SearchRows(search_term, search_type)],
              <<"get_all_books">>, <<>>)
    /\ UNCHANGED <<books, borrow_records, now>>

----------------------------------------------------------------------------
(* Fee lookup, patron status report, payment adapter *)

\* the operation calculate_late_fee_for_book, called on its own
calculate_late_fee(patron_id, book_id) ==
    LET fee_info == calculate_late_fee_for_book(patron_id, book_id) IN
    /\ Answer(Call("calculate_late_fee_for_book", patron_id, book_id),
              Res(TRUE, fee_info.status, fee_info.fee_amount, fee_info.days_overdue),
              FeeDbCalls(patron_id, book_id), <<>>)
    /\ UNCHANGED <<books, borrow_records, now>>

\* max(0, (now_date - r['due_date'].date()).days)
ReportDaysOverdue(r) == Max(0, now - r.due_date)

\* the fee rules kept inline in get_patron_status_report
ReportFee(days_overdue) ==
    IF days_overdue > 0
    THEN LET first7 == Min(days_overdue, ReportFirstTierDays) * ReportFirstTierRate
             rest == Max(days_overdue - ReportFirstTierDays, 0) * ReportSecondTierRate
         IN  Min(first7 + rest, ReportFeeCap)
    ELSE 0

\* one entry of currently_borrowed
ReportItem(r) ==
    [book_id |-> r.book_id, title |-> books[r.book_id].title,
     author |-> books[r.book_id].author, borrow_date |-> r.borrow_date,
     due_date |-> r.due_date, days_overdue |-> ReportDaysOverdue(r),
     late_fee |-> ReportFee(ReportDaysOverdue(r))]

\* the cap applied to the running total too
RECURSIVE TotalFee_capped(_, _)
TotalFee_capped(current, n) ==
    IF n = 0 THEN 0
    ELSE Min(TotalFee_capped(current, n - 1) + ReportFee(ReportDaysOverdue(current[n])),
             ReportFeeCap)

\* total_fee after the loop over the first n current records
RECURSIVE TotalFee(_, _)
TotalFee(current, n) ==
    IF n = 0 THEN 0
    ELSE TotalFee(current, n - 1) + ReportFee(ReportDaysOverdue(current[n]))

\* the rows of the history query: every record of the patron, newest first
BorrowingHistory(patron_id) ==
    LET rows == SelectSeq(borrow_records, LAMBDA r : r.patron_id = patron_id)
    IN  [i \in 1..Len(rows) |->
            LET row == rows[Len(rows) + 1 - i] IN
            [book_id |-> row.book_id, title |-> books[row.book_id].title,
             author |-> books[row.book_id].author, borrow_date |-> row.borrow_date,
             due_date |-> row.due_date, return_date |-> row.return_date]]

get_patron_status_report(patron_id) ==
    LET c == Call("get_patron_status_report", patron_id, 0)
        current == get_patron_borrowed_books(patron_id)
        current_items == [i \in 1..Len(current) |-> ReportItem(current[i])]
        payload == [patron_id |-> patron_id,
                    currently_borrowed_count |-> Len(current_items),
                    currently_borrowed |-> current_items,
                    total_late_fees_owed |-> TotalFee(current, Len(current)),
                    borrowing_history |-> BorrowingHistory(patron_id)]
    IN
    /\ UNCHANGED <<books, borrow_records, now>>
    /\ IF ~ValidPatronId(patron_id) THEN
            Answer(c, Res(FALSE, MsgInvalidPatron, 0, 0), <<>>, <<>>)
       ELSE
            Answer(c, [Res(TRUE, "", 0, 0) EXCEPT !.report = <<payload>>],
                   <<"get_patron_borrowed_books", "get_db_connection">>, <<>>)

\* the fee check made to let a fee of 0.00 through
NoFee_negative(fee_amount) == fee_amount < 0

\* fee_amount <= 0
NoFee(fee_amount) == fee_amount <= 0

\* the transaction id of a declined payment handed on
PayDeclined_withId(message, transaction_id) ==
    Quoting(FALSE, MsgDeclined, message, transaction_id)

\* return False, f"Payment failed: {message}", None
PayDeclined(message, transaction_id) == Quoting(FALSE, MsgDeclined, message, <<>>)

\* the try without its except
PayError_raised(e) == Raised(e)

\* return False, f"Payment processing error: {str(e)}", None
PayError(e) == Quoting(FALSE, MsgPayError, e, <<>>)

\* the loan closed by the payment of its fee
RecordsAfterPayment_closed(patron_id, book_id) ==
    update_borrow_record_return_date(patron_id, book_id, now)

\* the borrow records after a successful payment: between the gateway's
\* answer and the return of the result no persistence function is called
RecordsAfterPayment(patron_id, book_id) == borrow_records

\* outcome: what the gateway's process_payment does when it is called
pay_late_fees(patron_id, book_id, outcome) ==
    LET c == Call("pay_late_fees", patron_id, book_id)
        fee_info == calculate_late_fee_for_book(patron_id, book_id)
        fee_amount == fee_info.fee_amount
        fee_db == FeeDbCalls(patron_id, book_id)
        payment == <<[method |-> "process_payment", patron_id |-> patron_id,
                      amount |-> fee_amount,
                      description |-> IF BookExists(book_id)
                                      THEN get_book_by_id(book_id).title ELSE <<>>]>>
    IN
    /\ UNCHANGED <<books, now>>
    /\ IF ~ValidPatronId(patron_id) THEN
            /\ Answer(c, Res(FALSE, MsgInvalidPatron, 0, 0), <<>>, <<>>)
            /\ UNCHANGED borrow_records
       ELSE IF NoFee(fee_amount) THEN
            /\ Answer(c, Res(FALSE, MsgNoFees, 0, 0), fee_db, <<>>)
            /\ UNCHANGED borrow_records
       ELSE IF ~BookExists(book_id) THEN
            /\ Answer(c, Res(FALSE, MsgBookNotFound, 0, 0),
                      fee_db \o <<"get_book_by_id">>, <<>>)
            /\ UNCHANGED borrow_records
       ELSE IF outcome.raises THEN
            /\ Answer(c, PayError(outcome.message), fee_db \o <<"get_book_by_id">>, payment)
            /\ UNCHANGED borrow_records
       ELSE IF outcome.success THEN
            /\ Answer(c, Quoting(TRUE, MsgPaid, outcome.message, outcome.transaction_id),
                      fee_db \o <<"get_book_by_id">>, payment)
            /\ borrow_records' = RecordsAfterPayment(patron_id, book_id)
       ELSE
            /\ Answer(c, PayDeclined(outcome.message, outcome.transaction_id),
                      fee_db \o <<"get_book_by_id">>, payment)
            /\ UNCHANGED borrow_records

TxnPrefix == <<"t", "x", "n", "_">>

\* not transaction_id or not transaction_id.startswith("txn_"), with
\* transaction_id <<>> for None and else <<the string>>
InvalidTxn(transaction_id) ==
    \/ transaction_id = <<>>
    \/ transaction_id[1] = <<>>
    \/ ~startswith(transaction_id[1], TxnPrefix)

\* outcome: what the gateway's refund_payment does when it is called
refund_late_fee_payment(transaction_id, amount, outcome) ==
    LET c == [op |-> "refund_late_fee_payment", patron_id |-> <<>>, book_id |-> 0,
              args |-> <<transaction_id, amount>>]
        refund == <<[method |-> "refund_payment", transaction_id |-> transaction_id[1],
                     amount |-> amount]>>
    IN
    /\ UNCHANGED <<books, borrow_records, now>>
    /\ IF InvalidTxn(transaction_id) THEN
            Answer(c, Res(FALSE, MsgInvalidTxn, 0, 0), <<>>, <<>>)
       ELSE IF FloatLe(amount, Float(0)) THEN
            Answer(c, Res(FALSE, MsgRefundLow, 0, 0), <<>>, <<>>)
       ELSE IF FloatGt(amount, Float(RefundMax)) THEN
            Answer(c, Res(FALSE, MsgRefundHigh, 0, 0), <<>>, <<>>)
       ELSE IF outcome.raises THEN
            Answer(c, Quoting(FALSE, MsgRefundError, outcome.message, <<>>), <<>>, refund)
       ELSE IF outcome.success THEN
            Answer(c, Quoting(TRUE, "", outcome.message, <<>>), <<>>, refund)
       ELSE
            Answer(c, Quoting(FALSE, MsgRefundFailed, outcome.message, <<>>), <<>>, refund)

\* what a gateway method does: it returns (success, transaction_id, message)
\* (refund_payment: (success, message)), or raises Exception(message)
Txn1 == <<"t", "x", "n", "_", "1">>

GatewayOutcome(raises, success, transaction_id, message) ==
    [raises |-> raises, success |-> success, transaction_id |-> transaction_id,
     message |-> message]

GatewayOutcomes ==
    { GatewayOutcome(FALSE, TRUE, <<Txn1>>, "Processed OK"),
      GatewayOutcome(FALSE, FALSE, << <<>> >>, "Card declined"),
      GatewayOutcome(TRUE, FALSE, <<>>, "Network error"),
      GatewayOutcome(TRUE, FALSE, <<>>, "Timeout") }

----------------------------------------------------------------------------
(* The clock *)

\* a day passes between two calls
Tick ==
    /\ now' = now + 1
    /\ UNCHANGED <<books, borrow_records, call, result, db_calls, gateway_calls>>

----------------------------------------------------------------------------
(* Inputs *)

Patron1 == <<"1", "2", "3", "4", "5", "6">>
Patron2 == <<"6", "5", "4", "3", "2", "1">>
PatronEmpty == <<>>
PatronShort == <<"1", "2", "3", "4", "5">>
PatronAlpha == <<"1", "2", "A", "4", "5", "6">>

ValidPatrons == {Patron1, Patron2}
PatronIds == ValidPatrons \cup {PatronEmpty, PatronShort, PatronAlpha}

Isbn1 == Rep("1", 13)
Isbn2 == Rep("2", 13)

AddInput(title, author, isbn, total_copies) ==
    [title |-> title, author |-> author, isbn |-> isbn, total_copies |-> total_copies]

\* the ids of the books in the catalog, and one that is not
BookIds == 1..(Len(books) + 1)

----------------------------------------------------------------------------
(* General specification: the service from an empty store *)

Init ==
    /\ books = <<>>
    /\ borrow_records = <<>>
    /\ now = 0
    /\ call = NoCall
    /\ result = Res(TRUE, "", 0, 0)
    /\ db_calls = <<>>
    /\ gateway_calls = <<>>

\* whether the first and the second persistence write of a call succeed; the
\* second is not attempted when the first fails
WriteOutcomes == {<<TRUE, TRUE>>, <<TRUE, FALSE>>, <<FALSE, TRUE>>}

SomeAddInputs ==
    { AddInput(<<"A">>, <<"X">>, Isbn1, 1),
      AddInput(<<" ", "B", "b", " ">>, <<"Y">>, Isbn2, 2),
      AddInput(<<"A">>, <<"X">>, Isbn1, 0) }

\* the catalog holds at most one book of each ISBN of the inputs
AddBook ==
    \E a \in SomeAddInputs, insert_ok \in BOOLEAN :
        add_book_to_catalog(a.title, a.author, a.isbn, a.total_copies, insert_ok)

\* a borrow that inserts a record is taken while the records are below the bound
Borrow ==
    \E p \in ValidPatrons, b \in BookIds, w \in WriteOutcomes :
        /\ borrow_book_by_patron(p, b, w[1], w[2])
        /\ Len(borrow_records') <= MaxRecords

Return ==
    \E p \in ValidPatrons, b \in BookIds, w \in WriteOutcomes :
        return_book_by_patron(p, b, w[1], w[2])

NextDay == now < MaxDay /\ Tick

Next == AddBook \/ Borrow \/ Return \/ NextDay

Spec == Init /\ [][Next]_vars

----------------------------------------------------------------------------
(* Borrowing-limit specification: one day, one book with many copies, no     *)
(* persistence failure                                                      *)

LimitAddBook ==
    /\ Len(books) < 1
    /\ add_book_to_catalog(<<"A">>, <<"X">>, Isbn1, LimitCopies, TRUE)

LimitBorrow ==
    /\ Len(borrow_records) < MaxLimitRecords
    /\ \E p \in ValidPatrons, b \in BookIds : borrow_book_by_patron(p, b, TRUE, TRUE)

LimitReturn ==
    \E p \in ValidPatrons, b \in BookIds : return_book_by_patron(p, b, TRUE, TRUE)

NextLimit == LimitAddBook \/ LimitBorrow \/ LimitReturn

SpecLimit == Init /\ [][NextLimit]_vars

----------------------------------------------------------------------------
(* Stores holding loans of earlier days, no persistence failure             *)

FeeBook(title, author, isbn, total_copies, active) ==
    [title |-> title, author |-> author, isbn |-> isbn,
     total_copies |-> total_copies, available_copies |-> total_copies - active]

Loan(patron_id, book_id, borrow_date) ==
    [patron_id |-> patron_id, book_id |-> book_id, borrow_date |-> borrow_date,
     due_date |-> borrow_date + LoanDays, return_date |-> <<>>]

\* at most max_loans loans one patron borrowed one after the other
LoanSeqs(max_loans) ==
    UNION { { l \in [1..n -> { Loan(Patron1, b, d) : b \in 1..2,
                                                     d \in 0..MaxFeeBorrowDay }] :
                \A i \in 1..n, j \in 1..n : i < j => l[i].borrow_date <= l[j].borrow_date }
            : n \in 0..max_loans }

ActiveOf(loans, book_id) ==
    Cardinality({ i \in 1..Len(loans) : loans[i].book_id = book_id })

\* two books of max_loans copies each, and the loans borrowed up to today
StoreInit(max_loans) ==
    /\ borrow_records \in LoanSeqs(max_loans)
    /\ books = << FeeBook(<<"A">>, <<"X">>, Isbn1, max_loans, ActiveOf(borrow_records, 1)),
                  FeeBook(<<"B", "b">>, <<"Y">>, Isbn2, max_loans, ActiveOf(borrow_records, 2)) >>
    /\ \A i \in 1..Len(borrow_records) : borrow_records[i].borrow_date <= now
    /\ call = NoCall
    /\ result = Res(TRUE, "", 0, 0)
    /\ db_calls = <<>>
    /\ gateway_calls = <<>>

----------------------------------------------------------------------------
(* Fee specification: one loan, on any day up to MaxFeeDay                   *)

FeeInit ==
    /\ now \in 0..MaxFeeDay
    /\ StoreInit(MaxFeeLoans)

FeeBorrow ==
    /\ Len(borrow_records) < MaxFeeLoans
    /\ \E p \in ValidPatrons, b \in BookIds : borrow_book_by_patron(p, b, TRUE, TRUE)

FeeReturn ==
    \E p \in ValidPatrons, b \in BookIds : return_book_by_patron(p, b, TRUE, TRUE)

FeeLookup == \E p \in ValidPatrons, b \in BookIds : calculate_late_fee(p, b)

StatusReport == \E p \in ValidPatrons : get_patron_status_report(p)

NextFee == FeeBorrow \/ FeeReturn \/ FeeLookup \/ StatusReport

SpecFee == FeeInit /\ [][NextFee]_vars

----------------------------------------------------------------------------
(* Report specification: several loans, on the first due date and every     *)
(* FirstTierDays days after it                                              *)

ReportDays == { LoanDays + k * FirstTierDays : k \in 0..MaxReportWeeks }

ReportInit ==
    /\ now \in ReportDays
    /\ StoreInit(MaxReportLoans)

ReportBorrow ==
    /\ Len(borrow_records) < MaxReportLoans
    /\ \E p \in ValidPatrons, b \in BookIds : borrow_book_by_patron(p, b, TRUE, TRUE)

NextReport == ReportBorrow \/ FeeReturn \/ FeeLookup \/ StatusReport

SpecReport == ReportInit /\ [][NextReport]_vars

----------------------------------------------------------------------------
(* Patron-id specification: every operation that takes a patron id, with    *)
(* well-formed and malformed ids, on a day when the loans are overdue        *)

PatronInit ==
    /\ now = MaxFeeDay
    /\ StoreInit(MaxFeeLoans)

PatronBorrow ==
    /\ Len(borrow_records) < MaxFeeLoans
    /\ \E p \in PatronIds, b \in BookIds : borrow_book_by_patron(p, b, TRUE, TRUE)

PatronReturn ==
    \E p \in PatronIds, b \in BookIds : return_book_by_patron(p, b, TRUE, TRUE)

PatronFeeLookup == \E p \in PatronIds, b \in BookIds : calculate_late_fee(p, b)

PatronStatusReport == \E p \in PatronIds : get_patron_status_report(p)

PatronPay ==
    \E p \in PatronIds, b \in BookIds, outcome \in GatewayOutcomes : pay_late_fees(p, b, outcome)

NextPatron ==
    PatronBorrow \/ PatronReturn \/ PatronFeeLookup \/ PatronStatusReport \/ PatronPay

SpecPatron == PatronInit /\ [][NextPatron]_vars

----------------------------------------------------------------------------
(* Payment specification: a store holding a loan, on the days of the report  *)
(* specification; payments, refunds and returns                             *)

TxnIds ==
    { <<>>, << <<>> >>, << <<"a", "b", "c">> >>, << <<"t", "x", "n">> >>,
      <<TxnPrefix>>, <<Txn1>> }

RefundAmounts ==
    { Float(-1), Float(0), Float(1), Float(RefundMax), Float(RefundMax + 1), NaN }

PaymentInit ==
    /\ now \in ReportDays
    /\ StoreInit(MaxFeeLoans)

Pay ==
    \E p \in ValidPatrons, b \in BookIds, outcome \in GatewayOutcomes :
        pay_late_fees(p, b, outcome)

Refund ==
    \E t \in TxnIds, a \in RefundAmounts, outcome \in GatewayOutcomes :
        refund_late_fee_payment(t, a, outcome)

NextPayment == Pay \/ Refund \/ FeeReturn

SpecPayment == PaymentInit /\ [][NextPayment]_vars

----------------------------------------------------------------------------
(* Catalog specification: books added to an empty catalog, and searches      *)

\* 13 characters that are not all digits, 12 digits
IsbnAlpha == Rep("1", IsbnLen - 1) \o <<"X">>
IsbnShort == Rep("1", IsbnLen - 1)

CatalogAddInputs ==
    { AddInput(<<"B", "b">>, <<"X">>, Isbn1, 1),
      AddInput(<<" ", "A", "b", " ">>, <<"b", "Y">>, Isbn2, 2),
      AddInput(<<"C">>, <<"Z">>, Isbn1, 2),
      AddInput(<<"C">>, <<"Z">>, IsbnAlpha, 1),
      AddInput(<<"C">>, <<"Z">>, IsbnShort, 1),
      AddInput(<<"C">>, <<"Z">>, Isbn2, 0) }

\* the catalog holds at most one book of each ISBN of the inputs
CatalogAdd ==
    \E a \in CatalogAddInputs, insert_ok \in BOOLEAN :
        add_book_to_catalog(a.title, a.author, a.isbn, a.total_copies, insert_ok)

\* search terms: None, blank ones, parts of titles and authors, an ISBN whole,
\* padded and in part
SearchTerms ==
    { <<>>, << <<>> >>, << <<" ", " ">> >>, << <<"\t">> >>,
      << <<"b">> >>, << <<" ", "a", "B", " ">> >>, << <<"X">> >>,
      <<Isbn1>>, << <<" ">> \o Isbn1 \o <<" ">> >>,
      <<SubSeq(Isbn1, 1, 5)>>, <<SubSeq(IsbnAlpha, 2, IsbnLen)>> }

\* search types: None, the three types, types in capitals, an unknown one
SearchTypes ==
    { <<>>, <<TitleType>>, <<AuthorType>>, <<IsbnType>>,
      << <<"I", "S", "B", "N">> >>, << <<"A", "u", "t", "h", "o", "r">> >>,
      << <<"p", "u", "b", "l", "i", "s", "h", "e", "r">> >> }

Search ==
    \E search_term \in SearchTerms, search_type \in SearchTypes :
        search_books_in_catalog(search_term, search_type)

NextCatalog == CatalogAdd \/ Search

SpecCatalog == Init /\ [][NextCatalog]_vars

----------------------------------------------------------------------------
(* History specification: one book borrowed and returned again and again     *)
(* while the days pass, persistence failures included                        *)

HistoryAddBook ==
    /\ Len(books) < 1
    /\ add_book_to_catalog(<<"A">>, <<"X">>, Isbn1, MaxHistoryRecords, TRUE)

HistoryBorrow ==
    \E p \in ValidPatrons, b \in BookIds, w \in WriteOutcomes :
        /\ borrow_book_by_patron(p, b, w[1], w[2])
        /\ Len(borrow_records') <= MaxHistoryRecords

HistoryReturn ==
    \E p \in ValidPatrons, b \in BookIds, w \in WriteOutcomes :
        return_book_by_patron(p, b, w[1], w[2])

HistoryDay == now < MaxHistoryDay /\ Tick

NextHistory == HistoryAddBook \/ HistoryBorrow \/ HistoryReturn \/ HistoryDay

SpecHistory == Init /\ [][NextHistory]_vars

----------------------------------------------------------------------------
(* Vocabulary of the properties *)

\* the step is a call of the operation with these arguments
BorrowStep(p, b) ==
    \E insert_ok \in BOOLEAN, availability_ok \in BOOLEAN :
        borrow_book_by_patron(p, b, insert_ok, availability_ok)

ReturnStep(p, b) ==
    \E return_ok \in BOOLEAN, availability_ok \in BOOLEAN :
        return_book_by_patron(p, b, return_ok, availability_ok)

LookupStep(p, b) == calculate_late_fee(p, b)

ReportStep(p) == get_patron_status_report(p)

PayStep(p, b) == \E outcome \in GatewayOutcomes : pay_late_fees(p, b, outcome)

RefundStep(t, a) == \E outcome \in GatewayOutcomes : refund_late_fee_payment(t, a, outcome)

\* indices of the active records of a patron, of a (patron, book) pair
ActiveIdx(p) ==
    { i \in 1..Len(borrow_records) :
        borrow_records[i].patron_id = p /\ borrow_records[i].return_date = <<>> }

ActivePairIdx(p, b) == { i \in ActiveIdx(p) : borrow_records[i].book_id = b }

ActiveCount(p) == Cardinality(ActiveIdx(p))

\* the fee schedule in cents: 0.50 a day for 7 days, 1.00 a day after, at most 15.00
ExpectedFee(d) ==
    LET a == IF d < 7 THEN d ELSE 7
        c == IF d > 7 THEN d - 7 ELSE 0
        f == a * 50 + c * 100
    IN  IF f < 1500 THEN f ELSE 1500

\* the oldest active record of the pair
OldestActive(p, b) ==
    borrow_records[CHOOSE k \in ActivePairIdx(p, b) : \A j \in ActivePairIdx(p, b) : k <= j]

\* the pair owes a fee today
OwesFee(p, b) ==
    /\ b \in 1..Len(books)
    /\ ActivePairIdx(p, b) # {}
    /\ now > OldestActive(p, b).due_date

WellFormed(p) == Len(p) = 6 /\ \A i \in 1..Len(p) : p[i] \in Digits

\* indices of the active records of a pair among records
ActivePairIn(records, p, b) ==
    { i \in 1..Len(records) :
        records[i].patron_id = p /\ records[i].book_id = b /\ records[i].return_date = <<>> }

\* a borrow with these arguments passes every check before the writes
BorrowAccepted(p, b) ==
    /\ WellFormed(p)
    /\ b \in 1..Len(books)
    /\ books[b].available_copies > 0
    /\ ActiveCount(p) <= 5

\* a return with these arguments finds an active record
ReturnAccepted(p, b) ==
    /\ WellFormed(p)
    /\ b \in 1..Len(books)
    /\ ActivePairIdx(p, b) # {}

InRange(seq, x) == \E i \in 1..Len(seq) : seq[i] = x

\* indices of the active records of a patron, of a book, among records
ActiveOfPatronIn(records, p) ==
    { i \in 1..Len(records) : records[i].patron_id = p /\ records[i].return_date = <<>> }

ActiveOfBookIn(records, b) ==
    { i \in 1..Len(records) : records[i].book_id = b /\ records[i].return_date = <<>> }

\* the Optional[str] is None, empty or made of whitespace only
IsBlank(t) == t = <<>> \/ \A i \in 1..Len(t[1]) : t[1][i] \in {" ", "\t", "\n"}

\* the string without its leading and trailing whitespace
Trimmed(str) ==
    LET inner == { i \in 1..Len(str) : str[i] \notin {" ", "\t", "\n"} }
    IN  IF inner = {} THEN <<>>
        ELSE SubSeq(str, CHOOSE i \in inner : \A j \in inner : i <= j,
                         CHOOSE i \in inner : \A j \in inner : i >= j)

\* the ids of the rows of a list of books, in the order of the list
Ids(rows) == [k \in 1..Len(rows) |-> rows[k].id]

----------------------------------------------------------------------------
(* Properties *)

\* C1: every book has 0 <= available_copies <= total_copies, in every state
\* any sequence of add, borrow and return calls reaches, failing calls and
\* failing persistence writes included.
C1_CopiesWithinTotal ==
    \A i \in 1..Len(books) :
        /\ 0 <= books[i].available_copies
        /\ books[i].available_copies <= books[i].total_copies

\* a return that found the book's copies all available and skipped the increment
C1_Witness ==
    /\ call.op = "return_book_by_patron"
    /\ result.success
    /\ books[call.book_id].available_copies = books[call.book_id].total_copies
    /\ ~InRange(db_calls, "update_book_availability")

\* C2: no (patron_id, book_id) pair has two active borrow records.
C2_OneActivePerPair ==
    \A p \in ValidPatrons, b \in 1..Len(books) : Cardinality(ActivePairIdx(p, b)) <= 1

\* C3: a borrow by a well-formed patron id of an existing book with
\* available_copies > 0 gets the borrowing-limit failure exactly when the
\* patron's active-borrow count is greater than 5; with exactly 5 it is not
\* rejected.
C3_LimitAboveFive ==
    [][ LET p == call'.patron_id
            b == call'.book_id
        IN  ( /\ call'.op = "borrow_book_by_patron"
              /\ BorrowStep(p, b)
              /\ Len(p) = 6 /\ (\A i \in 1..Len(p) : p[i] \in Digits)
              /\ b \in 1..Len(books)
              /\ books[b].available_copies > 0 )
            => /\ (~result'.success /\ result'.message = MsgLimit) <=> (ActiveCount(p) > 5)
               /\ (ActiveCount(p) = 5 => result'.message
                      \in {MsgBorrowed, MsgInsertFailed, MsgAvailFailed}) ]_vars

\* a patron holding 5 loans has just borrowed a 6th
C3_Witness ==
    /\ call.op = "borrow_book_by_patron"
    /\ result.success
    /\ ActiveCount(call.patron_id) = 6

\* C4: calculate_late_fee_for_book on an active borrow record (the record it
\* finds for the pair: the patron's oldest active record of the book) returns
\* 0 days, 0.00 and 'Not overdue' when today <= due date, and else
\* d = today - due date, 'Overdue' and min(min(d,7)*0.50 + max(d-7,0)*1.00, 15.00).
C4_FeeOfActiveRecord ==
    [][ LET p == call'.patron_id
            b == call'.book_id
        IN  ( /\ call'.op = "calculate_late_fee_for_book"
              /\ LookupStep(p, b)
              /\ ActivePairIdx(p, b) # {} )
            => LET i == CHOOSE k \in ActivePairIdx(p, b) :
                            \A j \in ActivePairIdx(p, b) : k <= j
                   due == borrow_records[i].due_date
                   d == now - due
               IN  IF now <= due
                   THEN /\ result'.days_overdue = 0
                        /\ result'.fee_amount = 0
                        /\ result'.message = "Not overdue"
                   ELSE /\ result'.days_overdue = d
                        /\ result'.fee_amount = ExpectedFee(d)
                        /\ result'.message = "Overdue" ]_vars

\* a fee lookup of a loan 10 days overdue answered 6.50
C4_Witness ==
    /\ call.op = "calculate_late_fee_for_book"
    /\ result.message = "Overdue"
    /\ result.days_overdue = 10
    /\ result.fee_amount = 650

\* every fee figure a call returned: <<days_overdue, fee>> of a fee lookup or a
\* return message, and of every loan a status report lists
ReturnedFees ==
    {<<result.days_overdue, result.fee_amount>>}
    \cup UNION { { <<r.currently_borrowed[k].days_overdue, r.currently_borrowed[k].late_fee>> :
                     k \in 1..Len(r.currently_borrowed) } :
                 r \in { result.report[k] : k \in 1..Len(result.report) } }

\* C5 (as claimed): for 7 < d <= 29 the fee of a loan d days overdue is
\* 3.50 + (d - 7) * 1.00.
C5_Original ==
    \A f \in ReturnedFees :
        (7 < f[1] /\ f[1] <= 29) => f[2] = 350 + (f[1] - 7) * 100

\* C5 (amended): for 7 < d <= 18 the fee of a loan d days overdue is
\* 3.50 + (d - 7) * 1.00; for 18 < d <= 29 it is the cap, 15.00.
C5_SecondTierUntilCap ==
    \A f \in ReturnedFees :
        /\ (7 < f[1] /\ f[1] <= 18) => f[2] = 350 + (f[1] - 7) * 100
        /\ (18 < f[1] /\ f[1] <= 29) => f[2] = 1500

\* a fee lookup of a loan 18 days overdue, the last day below the cap
C5_Witness ==
    /\ call.op = "calculate_late_fee_for_book"
    /\ result.days_overdue = 18
    /\ result.fee_amount = 1450

\* C6: the days_overdue and late_fee the status report lists for a loan are
\* those calculate_late_fee_for_book returns for the loan's (patron, book) on
\* the same day, and the fee a return of the loan reports that day.
C6_SameFeeEverywhere ==
    [][ /\ ( call'.op = "get_patron_status_report" /\ ReportStep(call'.patron_id)
             /\ result'.report # <<>> )
           => \A k \in 1..Len(result'.report[1].currently_borrowed) :
                LET item == result'.report[1].currently_borrowed[k]
                    fee_info == calculate_late_fee_for_book(call'.patron_id, item.book_id)
                IN  /\ item.days_overdue = fee_info.days_overdue
                    /\ item.late_fee = fee_info.fee_amount
        /\ ( call'.op = "return_book_by_patron"
             /\ ReturnStep(call'.patron_id, call'.book_id)
             /\ result'.success )
           => LET fee_info == calculate_late_fee_for_book(call'.patron_id, call'.book_id)
              IN  /\ result'.days_overdue = fee_info.days_overdue
                  /\ result'.fee_amount = fee_info.fee_amount ]_vars

\* the sum over the patron's active records of the fee of each
RECURSIVE SumActiveFees(_, _)
SumActiveFees(p, n) ==
    IF n = 0 THEN 0
    ELSE SumActiveFees(p, n - 1)
         + ( IF n \in ActiveIdx(p) /\ now > borrow_records[n].due_date
             THEN ExpectedFee(now - borrow_records[n].due_date)
             ELSE 0 )

\* C7: total_late_fees_owed of a status report is the sum over the patron's
\* active loans of the per-loan fee, each capped at 15.00 and the sum not
\* capped; returned loans and other patrons' loans add nothing.
C7_TotalIsSumOfActiveFees ==
    [][ ( call'.op = "get_patron_status_report" /\ ReportStep(call'.patron_id)
          /\ result'.report # <<>> )
        => /\ result'.report[1].total_late_fees_owed
                = SumActiveFees(call'.patron_id, Len(borrow_records))
           /\ result'.report[1].currently_borrowed_count = ActiveCount(call'.patron_id) ]_vars

\* a report of two overdue loans whose fees add up to more than 15.00
C7_Witness ==
    /\ call.op = "get_patron_status_report"
    /\ result.report # <<>>
    /\ result.report[1].currently_borrowed_count = 2
    /\ result.report[1].total_late_fees_owed > 1500

\* C8: a successful borrow followed by the return of the same (patron, book)
\* not after the due date succeeds, reports 'No late fee', and leaves
\* available_copies at its value before the borrow.
C8_BorrowThenReturn ==
    [][ LET p == call'.patron_id
            b == call'.book_id
        IN  ( /\ call = Call("borrow_book_by_patron", p, b)
              /\ result.success
              /\ call'.op = "return_book_by_patron"
              /\ return_book_by_patron(p, b, TRUE, TRUE)
              /\ now <= borrow_records[Len(borrow_records)].due_date )
            => /\ result'.success
               /\ result'.message = MsgReturnedNoFee
               /\ result'.fee_amount = 0
               /\ books'[b].available_copies = books[b].available_copies + 1 ]_vars

\* C9: a borrow of a book whose available_copies is 0 by any patron (a
\* well-formed id) fails with 'not available' and changes neither the books
\* nor the borrow records.
C9_NotAvailable ==
    [][ LET p == call'.patron_id
            b == call'.book_id
        IN  ( /\ call'.op = "borrow_book_by_patron"
              /\ BorrowStep(p, b)
              /\ Len(p) = 6 /\ (\A i \in 1..Len(p) : p[i] \in Digits)
              /\ b \in 1..Len(books)
              /\ books[b].available_copies = 0 )
            => /\ ~result'.success
               /\ result'.message = MsgNotAvailable
               /\ books' = books
               /\ borrow_records' = borrow_records ]_vars

\* the single copy of a book is on loan and a second borrow was refused
C9_Witness ==
    /\ call.op = "borrow_book_by_patron"
    /\ result.message = MsgNotAvailable
    /\ books[call.book_id].total_copies = 1
    /\ books[call.book_id].available_copies = 0
    /\ \E i \in 1..Len(borrow_records) :
           borrow_records[i].book_id = call.book_id /\ borrow_records[i].return_date = <<>>

\* C10: borrow, return, fee lookup, status report and payment called with a
\* patron id that is not exactly 6 digits answer the invalid-patron failure
\* without calling a persistence function or the gateway, and leave books and
\* borrow records unchanged.
C10_InvalidPatronNoEffect ==
    [][ LET p == call'.patron_id
            b == call'.book_id
        IN  ( /\ ~(Len(p) = 6 /\ \A i \in 1..Len(p) : p[i] \in Digits)
              /\ \/ call'.op = "borrow_book_by_patron" /\ BorrowStep(p, b)
                 \/ call'.op = "return_book_by_patron" /\ ReturnStep(p, b)
                 \/ call'.op = "calculate_late_fee_for_book" /\ LookupStep(p, b)
                 \/ call'.op = "get_patron_status_report" /\ ReportStep(p)
                 \/ call'.op = "pay_late_fees" /\ PayStep(p, b) )
            => /\ IF call'.op = "calculate_late_fee_for_book"
                  THEN result'.message = "Invalid patron ID"
                  ELSE ~result'.success
                       /\ result'.message = "Invalid patron ID. Must be exactly 6 digits."
               /\ result'.fee_amount = 0 /\ result'.days_overdue = 0
               /\ result'.report = <<>> /\ result'.transaction_id = <<>>
               /\ db_calls' = <<>>
               /\ gateway_calls' = <<>>
               /\ books' = books
               /\ borrow_records' = borrow_records ]_vars

\* a payment for an overdue loan asked with a letter in the patron id
C10_Witness ==
    /\ call.op = "pay_late_fees"
    /\ call.patron_id = PatronAlpha
    /\ call.book_id \in 1..Len(books)
    /\ result.message = MsgInvalidPatron
    /\ \E i \in 1..Len(borrow_records) :
           /\ borrow_records[i].book_id = call.book_id
           /\ borrow_records[i].return_date = <<>>
           /\ borrow_records[i].due_date < now

\* C11: pay_late_fees for a well-formed patron id and a pair that owes no fee
\* (loan not overdue, no active borrow, unknown book) never calls the
\* gateway's process_payment and returns (False, 'No late fees to pay...', None).
C11_NoFeeNoPayment ==
    [][ LET p == call'.patron_id
            b == call'.book_id
        IN  ( /\ call'.op = "pay_late_fees"
              /\ PayStep(p, b)
              /\ WellFormed(p)
              /\ ~OwesFee(p, b) )
            => /\ gateway_calls' = <<>>
               /\ ~result'.success
               /\ result'.message = MsgNoFees
               /\ result'.transaction_id = <<>> ]_vars

\* a payment asked for a loan that is not overdue was refused without a
\* gateway call
C11_Witness ==
    /\ call.op = "pay_late_fees"
    /\ result.message = MsgNoFees
    /\ gateway_calls = <<>>
    /\ ActivePairIdx(call.patron_id, call.book_id) # {}
    /\ now <= OldestActive(call.patron_id, call.book_id).due_date

\* C12: refund_late_fee_payment calls the gateway's refund_payment only if the
\* transaction id is non-empty and starts with 'txn_' and 0 < amount <= 15.00;
\* an empty, null or unprefixed id gets the invalid-transaction-id failure, an
\* amount <= 0 or > 15.00 an amount failure, and then the gateway is not called.
C12_RefundOnlyWhenValid ==
    [][ LET t == call'.args[1]
            a == call'.args[2]
            prefixed == /\ t # <<>>
                        /\ Len(t[1]) >= 4
                        /\ t[1][1] = "t" /\ t[1][2] = "x" /\ t[1][3] = "n" /\ t[1][4] = "_"
            low == ~a.nan /\ a.cents <= 0
            high == ~a.nan /\ a.cents > 1500
            in_range == ~a.nan /\ 0 < a.cents /\ a.cents <= 1500
        IN  ( call'.op = "refund_late_fee_payment" /\ RefundStep(t, a) )
            => /\ gateway_calls' # <<>> => (prefixed /\ in_range)
               /\ ~prefixed => ( /\ ~result'.success
                                 /\ result'.message = MsgInvalidTxn
                                 /\ gateway_calls' = <<>> )
               /\ (prefixed /\ (low \/ high))
                     => ( /\ ~result'.success
                          /\ result'.message = IF low THEN MsgRefundLow ELSE MsgRefundHigh
                          /\ gateway_calls' = <<>> ) ]_vars

\* C13: when the gateway raises an exception during process_payment or
\* refund_payment, pay_late_fees and refund_late_fee_payment still return: a
\* failure (transaction id None for pay) whose message ends with the
\* exception's message.
C13_GatewayExceptionCaught ==
    [][ \A o \in GatewayOutcomes :
          o.raises =>
            /\ ( /\ call'.op = "pay_late_fees"
                 /\ pay_late_fees(call'.patron_id, call'.book_id, o)
                 /\ gateway_calls' # <<>> )
               => /\ ~result'.success
                  /\ result'.message = MsgPayError
                  /\ result'.detail = o.message
                  /\ result'.transaction_id = <<>>
            /\ ( /\ call'.op = "refund_late_fee_payment"
                 /\ refund_late_fee_payment(call'.args[1], call'.args[2], o)
                 /\ gateway_calls' # <<>> )
               => /\ ~result'.success
                  /\ result'.message = MsgRefundError
                  /\ result'.detail = o.message ]_vars

\* a payment of an owed fee during which the gateway timed out
C13_Witness ==
    /\ call.op = "pay_late_fees"
    /\ gateway_calls # <<>>
    /\ gateway_calls[1].method = "process_payment"
    /\ ~result.success
    /\ result.detail = "Timeout"

\* C14: pay_late_fees with a well-formed patron id for an existing book whose
\* loan owes a fee calls process_payment exactly once, with the fee the fee
\* calculator computes (0 < amount <= 15.00), and returns (True, message,
\* transaction_id) when the gateway reports success and (False, message, None)
\* when it reports a decline.
C14_PaymentOfOwedFee ==
    [][ \A o \in GatewayOutcomes :
          LET p == call'.patron_id
              b == call'.book_id
              fee == ExpectedFee(now - OldestActive(p, b).due_date)
          IN  ( /\ call'.op = "pay_late_fees"
                /\ ~o.raises
                /\ pay_late_fees(p, b, o)
                /\ WellFormed(p)
                /\ OwesFee(p, b) )
              => /\ Len(gateway_calls') = 1
                 /\ gateway_calls'[1].method = "process_payment"
                 /\ gateway_calls'[1].patron_id = p
                 /\ gateway_calls'[1].amount = fee
                 /\ 0 < fee /\ fee <= 1500
                 /\ result'.success = o.success
                 /\ result'.detail = o.message
                 /\ IF o.success
                    THEN result'.message = MsgPaid
                         /\ result'.transaction_id = o.transaction_id
                    ELSE result'.message = MsgDeclined
                         /\ result'.transaction_id = <<>> ]_vars

\* a payment of 10.50 for a loan 14 days overdue that the gateway declined
C14_Witness ==
    /\ call.op = "pay_late_fees"
    /\ result.message = MsgDeclined
    /\ Len(gateway_calls) = 1
    /\ gateway_calls[1].amount = 1050

\* C15: when insert_borrow_record fails, borrow_book_by_patron fails with
\* 'creating borrow record' without calling update_book_availability, and the
\* books and the borrow records are as before the call.
C15_InsertFailureAborts ==
    [][ LET p == call'.patron_id
            b == call'.book_id
        IN  ( /\ call'.op = "borrow_book_by_patron"
              /\ BorrowAccepted(p, b)
              /\ borrow_book_by_patron(p, b, FALSE, TRUE) )
            => /\ ~result'.success
               /\ result'.message = MsgInsertFailed
               /\ InRange(db_calls', "insert_borrow_record")
               /\ ~InRange(db_calls', "update_book_availability")
               /\ books' = books
               /\ borrow_records' = borrow_records ]_vars

\* a borrow of an available book failed at the insert
C15_Witness ==
    /\ call.op = "borrow_book_by_patron"
    /\ result.message = MsgInsertFailed
    /\ books[call.book_id].available_copies = books[call.book_id].total_copies
    /\ borrow_records = <<>>

\* C16: when insert_borrow_record succeeds and update_book_availability then
\* fails, borrow_book_by_patron fails with an outcome other than the
\* record-not-created one and rolls nothing back: the new active record is in
\* the store and available_copies is not decremented.
C16_AvailabilityFailureKeepsRecord ==
    [][ LET p == call'.patron_id
            b == call'.book_id
        IN  ( /\ call'.op = "borrow_book_by_patron"
              /\ BorrowAccepted(p, b)
              /\ borrow_book_by_patron(p, b, TRUE, FALSE) )
            => /\ ~result'.success
               /\ result'.message = MsgAvailFailed
               /\ result'.message # MsgInsertFailed
               /\ Len(borrow_records') = Len(borrow_records) + 1
               /\ SubSeq(borrow_records', 1, Len(borrow_records)) = borrow_records
               /\ LET new == borrow_records'[Len(borrow_records')]
                  IN  /\ new.patron_id = p /\ new.book_id = b
                      /\ new.return_date = <<>>
                      /\ new.borrow_date = now /\ new.due_date = now + 14
               /\ books' = books ]_vars

\* a borrow failed at the availability write: the loan is recorded and every
\* copy still counts as available
C16_Witness ==
    /\ call.op = "borrow_book_by_patron"
    /\ result.message = MsgAvailFailed
    /\ ActivePairIdx(call.patron_id, call.book_id) # {}
    /\ books[call.book_id].available_copies = books[call.book_id].total_copies

\* C17: the return of an overdue active loan reports the fee and the days
\* overdue of the still-active record (the oldest active record of the pair),
\* a fee above 0, never the 0.00 the fee calculator gives once the record is
\* closed; and the record is closed.
C17_FeeBeforeReturnDate ==
    [][ LET p == call'.patron_id
            b == call'.book_id
            d == now - OldestActive(p, b).due_date
        IN  ( /\ call'.op = "return_book_by_patron"
              /\ return_book_by_patron(p, b, TRUE, TRUE)
              /\ WellFormed(p)
              /\ OwesFee(p, b) )
            => /\ result'.success
               /\ result'.message = MsgReturnedLate
               /\ result'.days_overdue = d
               /\ result'.fee_amount = ExpectedFee(d)
               /\ result'.fee_amount > 0
               /\ ActivePairIn(borrow_records', p, b) = {} ]_vars

\* the return of a loan 14 days overdue reported 10.50
C17_Witness ==
    /\ call.op = "return_book_by_patron"
    /\ result.message = MsgReturnedLate
    /\ result.days_overdue = 14
    /\ result.fee_amount = 1050
    /\ ActivePairIdx(call.patron_id, call.book_id) = {}

\* C18: once return_book_by_patron has written return_date it attempts the
\* availability increment exactly when available_copies < total_copies, the
\* increment is by exactly 1, and when available_copies equals total_copies
\* it makes no availability write and still reports success.
C18_IncrementOnlyBelowTotal ==
    [][ LET p == call'.patron_id
            b == call'.book_id
        IN  ( /\ call'.op = "return_book_by_patron"
              /\ ReturnAccepted(p, b)
              /\ result'.message # MsgReturnFailed )
            => IF books[b].available_copies < books[b].total_copies
               THEN /\ InRange(db_calls', "update_book_availability")
                    /\ \/ /\ result'.success
                          /\ books' = [books EXCEPT ![b].available_copies = @ + 1]
                       \/ /\ result'.message = MsgReturnPartial
                          /\ books' = books
               ELSE /\ ~InRange(db_calls', "update_book_availability")
                    /\ books' = books
                    /\ result'.success ]_vars

\* a return gave the loaned copy of a book back
C18_Witness ==
    /\ call.op = "return_book_by_patron"
    /\ result.success
    /\ InRange(db_calls, "update_book_availability")
    /\ books[call.book_id].available_copies = books[call.book_id].total_copies

\* C19: when return_book_by_patron has written return_date and the due
\* increment fails, it reports 'recorded but availability not updated', not
\* the full failure; the records of the pair stay closed, the patron's active
\* count drops by the loans closed, and the books are unchanged.
C19_PartialReturn ==
    [][ LET p == call'.patron_id
            b == call'.book_id
        IN  ( /\ call'.op = "return_book_by_patron"
              /\ ReturnAccepted(p, b)
              /\ books[b].available_copies < books[b].total_copies
              /\ return_book_by_patron(p, b, TRUE, FALSE) )
            => /\ ~result'.success
               /\ result'.message = MsgReturnPartial
               /\ result'.message # MsgReturnFailed
               /\ ActivePairIn(borrow_records', p, b) = {}
               /\ \A i \in ActivePairIdx(p, b) : borrow_records'[i].return_date = <<now>>
               /\ \A i \in 1..Len(borrow_records) :
                     i \notin ActivePairIdx(p, b) => borrow_records'[i] = borrow_records[i]
               /\ Len(borrow_records') = Len(borrow_records)
               /\ books' = books ]_vars

\* a return was recorded while its availability write failed
C19_Witness ==
    /\ call.op = "return_book_by_patron"
    /\ result.message = MsgReturnPartial
    /\ ActiveCount(call.patron_id) = 0
    /\ books[call.book_id].available_copies < books[call.book_id].total_copies
    /\ \E i \in 1..Len(borrow_records) :
          /\ borrow_records[i].patron_id = call.patron_id
          /\ borrow_records[i].book_id = call.book_id
          /\ borrow_records[i].return_date = <<now>>

\* C20: return_book_by_patron for a pair without an active record (never
\* borrowed, borrowed by another patron, already returned) fails with the
\* no-active-borrow result and changes neither the books nor the records.
C20_NoActiveBorrow ==
    [][ LET p == call'.patron_id
            b == call'.book_id
        IN  ( /\ call'.op = "return_book_by_patron"
              /\ WellFormed(p)
              /\ b \in 1..Len(books)
              /\ ActivePairIdx(p, b) = {}
              /\ ReturnStep(p, b) )
            => /\ ~result'.success
               /\ result'.message = MsgNoActive
               /\ books' = books
               /\ borrow_records' = borrow_records ]_vars

\* a second return of a loan already returned was refused
C20_Witness ==
    /\ call.op = "return_book_by_patron"
    /\ result.message = MsgNoActive
    /\ \E i \in 1..Len(borrow_records) :
          /\ borrow_records[i].patron_id = call.patron_id
          /\ borrow_records[i].book_id = call.book_id
          /\ borrow_records[i].return_date # <<>>

\* C21: borrow records are never deleted and are written at most once: over
\* every step the records only grow, the patron_id, book_id, borrow_date and
\* due_date (= borrow_date + 14 days) of a record never change, and a
\* return_date that is set is never cleared or overwritten by a later borrow
\* or return.
C21_RecordsOnlyGrow ==
    [][ /\ Len(borrow_records') >= Len(borrow_records)
        /\ \A i \in 1..Len(borrow_records) :
              LET old == borrow_records[i]
                  new == borrow_records'[i]
              IN  /\ new.patron_id = old.patron_id
                  /\ new.book_id = old.book_id
                  /\ new.borrow_date = old.borrow_date
                  /\ new.due_date = old.due_date
                  /\ old.return_date # <<>> => new.return_date = old.return_date
        /\ \A i \in 1..Len(borrow_records') :
              borrow_records'[i].due_date = borrow_records'[i].borrow_date + 14 ]_vars

\* a pair returned its loan one day and, having borrowed again, returned the
\* new loan a later day: the first record kept its return date
C21_Witness ==
    /\ call.op = "return_book_by_patron"
    /\ result.success
    /\ \E i \in 1..Len(borrow_records), j \in 1..Len(borrow_records) :
          /\ i < j
          /\ borrow_records[i].patron_id = call.patron_id
          /\ borrow_records[j].patron_id = call.patron_id
          /\ borrow_records[i].book_id = call.book_id
          /\ borrow_records[j].book_id = call.book_id
          /\ borrow_records[i].return_date # <<>>
          /\ borrow_records[j].return_date = <<now>>
          /\ borrow_records[i].return_date[1] < now

\* C22: search_books_in_catalog with an empty or whitespace-only term (or
\* none) returns, for every search type, exactly the list get_all_books
\* returns: every book of the catalog once, unfiltered, in the same order.
C22_BlankTermReturnsAll ==
    [][ ( call'.op = "search_books_in_catalog" /\ IsBlank(call'.args[1]) )
        => /\ result'.rows = get_all_books
           /\ Len(result'.rows) = Len(books)
           /\ \A i \in 1..Len(books) :
                 \E k \in 1..Len(result'.rows) :
                    /\ result'.rows[k].id = i
                    /\ result'.rows[k].isbn = books[i].isbn
                    /\ result'.rows[k].title = books[i].title ]_vars

\* an ISBN search for two spaces returned the three books of the catalog, in
\* the order of their titles and not of their ids
C22_Witness ==
    /\ call.op = "search_books_in_catalog"
    /\ call.args = << << <<" ", " ">> >>, <<IsbnType>> >>
    /\ Len(result.rows) = 3
    /\ Len(books) = 3
    /\ result.rows[1].id # 1

ThreeKinds == { << <<"t", "i", "t", "l", "e">> >>, << <<"a", "u", "t", "h", "o", "r">> >>,
                << <<"i", "s", "b", "n">> >> }

\* the search type in lower case; None and the empty type stay as they are
Folded(kind) == IF kind = <<>> THEN kind ELSE <<lower(kind[1])>>

\* C24 (as claimed): a search with a kind that is not one of title, author,
\* isbn (a missing kind included) returns the same list as the search with
\* kind 'title' on the same term.
C24_Original ==
    [][ ( call'.op = "search_books_in_catalog" /\ call'.args[2] \notin ThreeKinds )
        => result'.rows = SearchRows(call'.args[1], <<TitleType>>) ]_vars

\* C24 (amended): a search with a kind that in lower case is not one of
\* title, author, isbn (a missing or empty kind included) returns the same
\* list as the search with kind 'title' on the same term, a kind that is one
\* of the three in another case returns the list of the search with that kind
\* in lower case.
C24_UnknownKindIsTitle ==
    [][ LET t == call'.args[1]
            kind == call'.args[2]
        IN  call'.op = "search_books_in_catalog"
            => IF Folded(kind) \notin ThreeKinds
               THEN result'.rows = SearchRows(t, <<TitleType>>)
               ELSE result'.rows = SearchRows(t, Folded(kind)) ]_vars

\* a search of kind 'publisher' for 'b' returned the two books whose title
\* holds a b, of a catalog that holds a third book
C24_Witness ==
    /\ call.op = "search_books_in_catalog"
    /\ call.args = << << <<"b">> >>, << <<"p", "u", "b", "l", "i", "s", "h", "e", "r">> >> >>
    /\ Len(books) = 3
    /\ Len(result.rows) = 2

\* some character of the string is not whitespace
NotBlank(str) == \E i \in 1..Len(str) : str[i] \notin {" ", "\t", "\n"}

\* exactly 13 digits
ThirteenDigits(isbn) == Len(isbn) = 13 /\ \A i \in 1..Len(isbn) : isbn[i] \in Digits

C26_IsbnThirteenDigits ==
    [][ /\ \A i \in 1..Len(books') : ThirteenDigits(books'[i].isbn)
        /\ ( /\ call'.op = "add_book_to_catalog"
             /\ NotBlank(call'.args[1]) /\ NotBlank(call'.args[2])
             /\ ~ThirteenDigits(call'.args[3]) )
           => /\ ~result'.success
              /\ result'.message = MsgIsbnLength
              /\ books' = books ]_vars

\* C27: in every state that borrow and return calls reach no patron has more
\* than 6 active borrow records; a patron can reach 6, and every borrow by a
\* patron who holds 6 is rejected and adds no record.
C27_AtMostSixActive ==
    [][ /\ \A p \in ValidPatrons :
              Cardinality(ActiveOfPatronIn(borrow_records', p)) <= 6
        /\ ( call'.op = "borrow_book_by_patron" /\ ActiveCount(call'.patron_id) = 6 )
           => /\ ~result'.success
              /\ borrow_records' = borrow_records
              /\ books' = books
              /\ (call'.book_id \in 1..Len(books) /\ books[call'.book_id].available_copies > 0)
                    => result'.message = MsgLimit ]_vars

\* a patron who holds 6 loans was refused a 7th although a copy is available
C27_Witness ==
    /\ call.op = "borrow_book_by_patron"
    /\ result.message = MsgLimit
    /\ ActiveCount(call.patron_id) = 6
    /\ books[call.book_id].available_copies > 0

\* C28: when no persistence write fails, in every state that add, borrow and
\* return calls reach, the available_copies of each book is its total_copies
\* minus the number of active borrow records of the book.
C28_CopiesMatchRecords ==
    \A b \in 1..Len(books) :
        books[b].available_copies
            = books[b].total_copies - Cardinality(ActiveOfBookIn(borrow_records, b))

\* C29: a successful return_book_by_patron(p, b) closes only p's active record
\* of b: the records of every other patron (another patron's active loan of b
\* included), p's records of other books and the counters of every other book
\* are unchanged, and p's active-borrow count decreases by exactly 1.
C29_ReturnClosesOneLoan ==
    [][ LET p == call'.patron_id
            b == call'.book_id
        IN  ( call'.op = "return_book_by_patron" /\ result'.success )
            => /\ Len(borrow_records') = Len(borrow_records)
               /\ \A i \in 1..Len(borrow_records) :
                     (borrow_records[i].patron_id # p \/ borrow_records[i].book_id # b)
                        => borrow_records'[i] = borrow_records[i]
               /\ \A k \in 1..Len(books) : k # b => books'[k] = books[k]
               /\ Cardinality(ActiveOfPatronIn(borrow_records', p)) = ActiveCount(p) - 1 ]_vars

\* C30: pay_late_fees and refund_late_fee_payment never change the books or
\* the borrow records: after a successful payment for an overdue active loan
\* the loan is still active and owes the same fee on the same day, so a second
\* pay_late_fees for the pair calls process_payment again with the same
\* amount; and a pay_late_fees for a pair whose loan has been returned never
\* calls the gateway.
C30_PaymentKeepsStore ==
    [][ LET p == call'.patron_id
            b == call'.book_id
        IN  /\ call'.op \in {"pay_late_fees", "refund_late_fee_payment"}
               => books' = books /\ borrow_records' = borrow_records
            /\ ( call'.op = "pay_late_fees" /\ result'.success )
               => /\ ActivePairIn(borrow_records', p, b) # {}
                  /\ calculate_late_fee_for_book(p, b).fee_amount = gateway_calls'[1].amount
            /\ ( /\ call = Call("pay_late_fees", p, b)
                 /\ result.success
                 /\ call'.op = "pay_late_fees" )
               => /\ Len(gateway_calls') = 1
                  /\ gateway_calls'[1].method = "process_payment"
                  /\ gateway_calls'[1].amount = gateway_calls[1].amount
            /\ ( /\ call'.op = "pay_late_fees"
                 /\ ActivePairIdx(p, b) = {}
                 /\ \E i \in 1..Len(borrow_records) :
                       /\ borrow_records[i].patron_id = p
                       /\ borrow_records[i].book_id = b
                       /\ borrow_records[i].return_date # <<>> )
               => gateway_calls' = <<>> /\ ~result'.success ]_vars

\* the fee of 3.50 of a loan 7 days overdue was paid, and the loan is still
\* active and still owes 3.50
C30_Witness ==
    /\ call.op = "pay_late_fees"
    /\ result.success
    /\ gateway_calls[1].amount = 350
    /\ OwesFee(call.patron_id, call.book_id)
    /\ calculate_late_fee_for_book(call.patron_id, call.book_id).fee_amount = 350

====
